---- MODULE Spec2Model ----
(***************************************************************************)
(* Model of pf-fact-check.py: fetch an article, extract the quoted         *)
(* statements, identify speakers, look every speaker up on the paginated   *)
(* fact-check site, score the speaker and write speaker_scores.json.       *)
(*                                                                         *)
(* A Python str is modelled as a sequence of one-character strings, a      *)
(* Python list as a sequence, None as the empty option <<>> and a present  *)
(* value x as <<x>>.  A float is modelled as the exact rational it stands  *)
(* for, kept as a reduced fraction [num, den].                             *)
(***************************************************************************)
EXTENDS Integers, Sequences, FiniteSets, TLC

\* ------------------------------------------------------------------------
\* Bounds of the model
\* ------------------------------------------------------------------------
\* largest page number the lookup may request
MaxPage == 3
\* largest number of result entries on one fact-check page
MaxEntries == 2
\* largest length of a paragraph of an enumerated article (SpecText)
MaxLen == 4
\* largest number of paragraphs of an enumerated article (SpecText)
MaxParas == 2
\* largest number of records handed to the scorer (SpecScore)
MaxRecords == 3

\* ------------------------------------------------------------------------
\* Characters and strings
\* ------------------------------------------------------------------------
Upper == {"A", "B", "C", "D", "E", "F", "G", "H", "I", "J", "K", "L", "M",
          "N", "O", "P", "Q", "R", "S", "T", "U", "V", "W", "X", "Y", "Z"}
Lower == {"a", "b", "c", "d", "e", "f", "g", "h", "i", "j", "k", "l", "m",
          "n", "o", "p", "q", "r", "s", "t", "u", "v", "w", "x", "y", "z"}
Digit == {"0", "1", "2", "3", "4", "5", "6", "7", "8", "9"}
Space == {" ", "\t", "\n"}
QUOTE == "\""

IsUpper(c) == c \in Upper
IsLower(c) == c \in Lower
IsSpace(c) == c \in Space
IsWord(c) == c \in Upper \cup Lower \cup Digit \cup {"_"}

None == <<>>
Some(x) == <<x>>

Max(S) == CHOOSE m \in S : \A n \in S : n <= m

\* sep.join(parts): parts is a sequence of strings
RECURSIVE join(_, _)
join(sep, parts) ==
    IF Len(parts) = 0 THEN <<>>
    ELSE IF Len(parts) = 1 THEN parts[1]
    ELSE parts[1] \o sep \o join(sep, Tail(parts))

\* iterating a str yields its characters as one-character strs
StrIter(s) == [i \in 1..Len(s) |-> <<s[i]>>]

\* str.strip(): drop leading and trailing whitespace
RECURSIVE lstrip(_)
lstrip(s) == IF Len(s) > 0 /\ IsSpace(s[1]) THEN lstrip(Tail(s)) ELSE s
RECURSIVE rstrip(_)
rstrip(s) ==
    IF Len(s) > 0 /\ IsSpace(s[Len(s)]) THEN rstrip(SubSeq(s, 1, Len(s) - 1)) ELSE s
strip(s) == rstrip(lstrip(s))

\* ------------------------------------------------------------------------
\* re.findall(r'"([^"]*)"', text)
\* ------------------------------------------------------------------------
\* first index >= i holding a double quote, Len(t) + 1 when there is none:
\* where the greedy [^"]* started at i stops
RECURSIVE NonQuoteRunEnd(_, _)
NonQuoteRunEnd(t, i) ==
    IF i > Len(t) \/ t[i] = QUOTE THEN i ELSE NonQuoteRunEnd(t, i + 1)

\* end (index of the closing quote) of a match of "([^"]*)" starting at s, 0 when none
QuoteMatchAt(t, s) ==
    IF s <= Len(t) /\ t[s] = QUOTE
    THEN LET e == NonQuoteRunEnd(t, s + 1) IN IF e <= Len(t) THEN e ELSE 0
    ELSE 0

\* a scan that resumes on the closing quote instead of after it
RECURSIVE QuoteFindall_overlap(_, _)
QuoteFindall_overlap(t, s) ==
    IF s > Len(t) THEN <<>>
    ELSE LET e == QuoteMatchAt(t, s)
         IN  IF e = 0 THEN QuoteFindall_overlap(t, s + 1)
             ELSE <<SubSeq(t, s + 1, e - 1)>> \o QuoteFindall_overlap(t, e)

\* the scan of findall: leftmost match, then resume right after it
RECURSIVE QuoteFindall(_, _)
QuoteFindall(t, s) ==
    IF s > Len(t) THEN <<>>
    ELSE LET e == QuoteMatchAt(t, s)
         IN  IF e = 0 THEN QuoteFindall(t, s + 1)
             ELSE <<SubSeq(t, s + 1, e - 1)>> \o QuoteFindall(t, e + 1)

\* ------------------------------------------------------------------------
\* re.findall(r'\b[A-Z][a-z]*\s[A-Z][a-z]*\b', text)
\* ------------------------------------------------------------------------
WordAt(t, i) == i >= 1 /\ i <= Len(t) /\ IsWord(t[i])
\* \b between t[i-1] and t[i]
Boundary(t, i) == WordAt(t, i - 1) # WordAt(t, i)

\* length of the run of [a-z] starting at i
RECURSIVE LowerRun(_, _)
LowerRun(t, i) ==
    IF i <= Len(t) /\ IsLower(t[i]) THEN 1 + LowerRun(t, i + 1) ELSE 0

\* \s[A-Z][a-z]*\b matched from j: index after the match, 0 when none.
\* The star is greedy and backtracks: the longest run that ends on a \b.
NameTailAt(t, j) ==
    IF j + 1 <= Len(t) /\ IsSpace(t[j]) /\ IsUpper(t[j + 1])
    THEN LET ks == {k \in 0..LowerRun(t, j + 2) : Boundary(t, j + 2 + k)}
         IN  IF ks = {} THEN 0 ELSE j + 2 + Max(ks)
    ELSE 0

\* the whole pattern matched from s: index after the match, 0 when none
NameMatchAt(t, s) ==
    IF s <= Len(t) /\ Boundary(t, s) /\ IsUpper(t[s])
    THEN LET ks == {k \in 0..LowerRun(t, s + 1) : NameTailAt(t, s + 1 + k) # 0}
         IN  IF ks = {} THEN 0 ELSE NameTailAt(t, s + 1 + Max(ks))
    ELSE 0

RECURSIVE NameFindall(_, _)
NameFindall(t, s) ==
    IF s > Len(t) THEN <<>>
    ELSE LET e == NameMatchAt(t, s)
         IN  IF e = 0 THEN NameFindall(t, s + 1)
             ELSE <<SubSeq(t, s, e - 1)>> \o NameFindall(t, e)

Range(s) == {s[i] : i \in 1..Len(s)}

\* identify_speakers(article_text): article_text is iterated and joined
identify_speakers(article_text) == Range(NameFindall(join(<<" ">>, article_text), 1))

\* get_article_text on a fetched page: paragraphs joined, quotes extracted
get_article_text(paras) == QuoteFindall(join(<<" ">>, paras), 1)


\* ------------------------------------------------------------------------
\* Numbers: a float is the rational it stands for, as a reduced fraction
\* ------------------------------------------------------------------------
Abs(n) == IF n < 0 THEN -n ELSE n

RECURSIVE GCD(_, _)
GCD(a, b) == IF b = 0 THEN a ELSE GCD(b, a % b)

\* the number n / d, d > 0
Rat(n, d) == LET g == GCD(Abs(n), d) IN [num |-> n \div g, den |-> d \div g]
RAdd(x, y) == Rat(x.num * y.den + y.num * x.den, x.den * y.den)
RDivInt(x, k) == Rat(x.num, x.den * k)
Zero == Rat(0, 1)

\* sum(scores), starting from 0
RECURSIVE sum(_)
sum(xs) == IF Len(xs) = 0 THEN Zero ELSE RAdd(xs[1], sum(Tail(xs)))

\* ------------------------------------------------------------------------
\* calculate_speaker_score
\* ------------------------------------------------------------------------
L_True == <<"T", "r", "u", "e">>
L_MostlyTrue == <<"M", "o", "s", "t", "l", "y", " ", "T", "r", "u", "e">>
L_HalfTrue == <<"H", "a", "l", "f", " ", "T", "r", "u", "e">>
L_MostlyFalse == <<"M", "o", "s", "t", "l", "y", " ", "F", "a", "l", "s", "e">>
L_False == <<"F", "a", "l", "s", "e">>
L_PantsOnFire == <<"P", "a", "n", "t", "s", " ", "o", "n", " ", "F", "i", "r", "e", "!">>

\* a lookup that strips the label first
rating_values_get_stripped(rating) ==
    CASE strip(rating) = L_True -> Rat(1, 1)
      [] strip(rating) = L_MostlyTrue -> Rat(8, 10)
      [] strip(rating) = L_HalfTrue -> Rat(5, 10)
      [] strip(rating) = L_MostlyFalse -> Rat(2, 10)
      [] strip(rating) = L_False -> Rat(0, 1)
      [] strip(rating) = L_PantsOnFire -> Rat(-1, 1)
      [] OTHER -> Zero

\* rating_values.get(rating, 0)
rating_values_get(rating) ==
    CASE rating = L_True -> Rat(1, 1)
      [] rating = L_MostlyTrue -> Rat(8, 10)
      [] rating = L_HalfTrue -> Rat(5, 10)
      [] rating = L_MostlyFalse -> Rat(2, 10)
      [] rating = L_False -> Rat(0, 1)
      [] rating = L_PantsOnFire -> Rat(-1, 1)
      [] OTHER -> Zero

\* scores = [rating_values.get(statement['rating'], 0) for statement in statements]
score_list(stmts) == [i \in 1..Len(stmts) |-> rating_values_get(stmts[i].rating)]

\* a mean that leaves the values that are 0 out of the count
mean_or_zero_nonzero(xs) ==
    LET n == Cardinality({i \in 1..Len(xs) : xs[i] # Zero})
    IN  IF n > 0 THEN RDivInt(sum(xs), n) ELSE Zero

\* sum(scores) / len(scores) if scores else 0
mean_or_zero(xs) == IF Len(xs) > 0 THEN RDivInt(sum(xs), Len(xs)) ELSE Zero

calculate_speaker_score(stmts) == mean_or_zero(score_list(stmts))

\* ------------------------------------------------------------------------
\* The fact-check site: what one page request can answer
\* ------------------------------------------------------------------------
SeqsUpTo(S, n) == UNION {[1..k -> S] : k \in 0..n}

\* one <li class="o-listicle__item">: the quote link's text, whether the meter
\* div, its picture and its img are there, and the img's alt
SiteTitles == {<<" ", "q", " ">>, <<"r">>}
SiteAlts == {<<" ", "T", "r", "u", "e", "\n">>}
WellFormedEntries ==
    {[quote |-> Some(t), meter |-> TRUE, picture |-> TRUE, img |-> TRUE, alt |-> Some(a)] :
        t \in SiteTitles, a \in SiteAlts}
SomeEntry == [quote |-> Some(<<"q">>), meter |-> TRUE, picture |-> TRUE, img |-> TRUE,
              alt |-> Some(L_True)]
MalformedEntries ==
    {[SomeEntry EXCEPT !.quote = None],
     [SomeEntry EXCEPT !.meter = FALSE],
     [SomeEntry EXCEPT !.picture = FALSE],
     [SomeEntry EXCEPT !.img = FALSE],
     [SomeEntry EXCEPT !.alt = None]}
SiteEntries == WellFormedEntries \cup MalformedEntries

\* lines 47-48 raise (AttributeError, TypeError or KeyError) unless all of
\* these are found
WellFormed(e) ==
    e.quote # None /\ e.meter /\ e.picture /\ e.img /\ e.alt # None

\* The result entries of a page as far as the loop of line 46 reads them: it
\* stops at the first entry on which it raises, so a page is given up to there.
ReadEntries ==
    {es \in SeqsUpTo(SiteEntries, MaxEntries) :
        \A i \in 1..(Len(es) - 1) : WellFormed(es[i])}

ErrorStatus == {"transport_error", "bad_status"}
SiteResponses ==
    {[status |-> "ok", entries |-> es] : es \in ReadEntries}
    \cup {[status |-> st, entries |-> <<>>] : st \in ErrorStatus}

\* index of the first entry on which lines 47-48 raise, Len + 1 when none
RECURSIVE FirstBad(_, _)
FirstBad(es, i) ==
    IF i > Len(es) \/ ~WellFormed(es[i]) THEN i ELSE FirstBad(es, i + 1)

\* lines 47-49 on one well-formed result
statement_of(e) == [title |-> strip(e.quote[1]), rating |-> strip(e.alt[1])]

\* a loop that keeps a record only when the page has not given it before
RECURSIVE dedup(_)
dedup(sq) ==
    IF Len(sq) = 0 THEN <<>>
    ELSE LET front == dedup(SubSeq(sq, 1, Len(sq) - 1))
         IN  IF sq[Len(sq)] \in Range(front) THEN front ELSE Append(front, sq[Len(sq)])
appended_dedup(es) == dedup([i \in 1..(FirstBad(es, 1) - 1) |-> statement_of(es[i])])

\* what the for loop of lines 46-49 appends before it ends or raises
appended(es) == [i \in 1..(FirstBad(es, 1) - 1) |-> statement_of(es[i])]

\* ------------------------------------------------------------------------
\* The articles the pipeline is run on (Spec)
\* ------------------------------------------------------------------------
T_Hello == <<"H", "e", " ", "s", "a", "i", "d", " ", QUOTE, "h", "e", "l", "l", "o", QUOTE, " ", "a", "n", "d", " ", QUOTE, "w", "o", "r", "l", "d", QUOTE>>
T_John == <<QUOTE, "J", "o", "h", "n", " ", "S", "m", "i", "t", "h", " ", "s", "a", "i", "d", " ", "t", "h", "i", "s", QUOTE>>
T_NATO == <<QUOTE, "N", "A", "T", "O", QUOTE>>
T_US1 == <<"T", "h", "e", " ", QUOTE, "U", "S">>
T_US2 == <<"A", QUOTE>>
T_Old == <<"O", "l", "d", " ", "N", "a", "m", "e">>

Articles ==
    {[status |-> "transport_error", paras |-> <<>>],
     [status |-> "bad_status", paras |-> <<>>],
     [status |-> "ok", paras |-> <<T_Hello>>],
     [status |-> "ok", paras |-> <<T_John>>],
     [status |-> "ok", paras |-> <<T_NATO>>],
     [status |-> "ok", paras |-> <<T_US1, T_US2>>]}

\* a speaker_scores.json left by an earlier run
OldFile == T_Old :> Rat(1, 2)


\* ------------------------------------------------------------------------
\* State
\* ------------------------------------------------------------------------
VARIABLES
    pc,             \* where the run is: "fetch", "identify", "for", "request",
                    \* "makedirs", "write", "done", "crashed" (unhandled
                    \* exception), and "score" / "scored" in SpecScore
    article,        \* what the article URL answers: [status, paras]
    dirExists,      \* whether the output directory exists
    file,           \* speaker_scores.json: None, or Some(the JSON object in it)
    article_text,   \* analyze_speakers_in_article: None, or Some(statements)
    speakers,       \* the list of line 71
    idx,            \* how many speakers the for loop of line 73 has taken
    speaker_scores, \* the mapping of line 72
    page,           \* scrape_politifact_for_speaker: the page counter
    statements,     \* the list the lookup collects and returns (lines 35, 74)
    log,            \* the answers the current lookup's requests got, in order
    lookups,        \* the speakers whose lookup was started, in order
    scores,         \* calculate_speaker_score: the list of line 61
    score           \* the value of line 75

vars == <<pc, article, dirExists, file, article_text, speakers, idx, speaker_scores,
          page, statements, log, lookups, scores, score>>

\* the orders list(set(matches)) may give
Orders(S) == {o \in [1..Cardinality(S) -> S] : Range(o) = S}

\* the state of a fresh run, before anything is fetched
Fresh ==
    /\ article_text = None
    /\ speakers = <<>>
    /\ idx = 0
    /\ speaker_scores = <<>>
    /\ page = 1
    /\ statements = <<>>
    /\ log = <<>>
    /\ lookups = <<>>
    /\ scores = <<>>
    /\ score = Zero

Init ==
    /\ pc = "fetch"
    /\ article \in Articles
    /\ \/ dirExists = FALSE /\ file = None
       \/ dirExists = TRUE /\ file = Some(OldFile)
    /\ Fresh

\* ------------------------------------------------------------------------
\* Actions
\* ------------------------------------------------------------------------
\* line 68: get_article_text(url)
FetchArticle ==
    /\ pc = "fetch"
    /\ article_text' = IF article.status = "ok"
                       THEN Some(get_article_text(article.paras))
                       ELSE None
    /\ pc' = "identify"
    /\ UNCHANGED <<article, dirExists, file, speakers, idx, speaker_scores, page,
                   statements, log, lookups, scores, score>>

\* the same without the None check of lines 69-70: joining None raises
Identify_nocheck ==
    /\ pc = "identify"
    /\ IF article_text = None
       THEN /\ pc' = "crashed"
            /\ speakers' = speakers
       ELSE /\ pc' = "for"
            /\ speakers' \in
                 Orders(identify_speakers(StrIter(join(<<" ">>, article_text[1]))))
    /\ speaker_scores' = <<>>
    /\ UNCHANGED <<article, dirExists, file, article_text, idx, page, statements, log,
                   lookups, scores, score>>

\* lines 69-72: the None check, identify_speakers on the joined statements
Identify ==
    /\ pc = "identify"
    /\ IF article_text = None
       THEN /\ pc' = "makedirs"
            /\ speakers' = speakers
       ELSE /\ pc' = "for"
            /\ speakers' \in
                 Orders(identify_speakers(StrIter(join(<<" ">>, article_text[1]))))
    /\ speaker_scores' = <<>>
    /\ UNCHANGED <<article, dirExists, file, article_text, idx, page, statements, log,
                   lookups, scores, score>>

\* line 73 taking the next speaker and lines 74, 35-36 starting its lookup
NextSpeaker ==
    /\ pc = "for"
    /\ idx < Len(speakers)
    /\ idx' = idx + 1
    /\ statements' = <<>>
    /\ page' = 1
    /\ log' = <<>>
    /\ scores' = <<>>
    /\ lookups' = Append(lookups, speakers[idx + 1])
    /\ pc' = "request"
    /\ UNCHANGED <<article, dirExists, file, article_text, speakers, speaker_scores, score>>

\* line 73 finding no speaker left, line 77
ReturnScores ==
    /\ pc = "for"
    /\ idx = Len(speakers)
    /\ pc' = "makedirs"
    /\ UNCHANGED <<article, dirExists, file, article_text, speakers, idx, speaker_scores,
                   page, statements, log, lookups, scores, score>>

\* a lookup that gives up what it collected: it returns the empty list
Returned_empty(stmts) ==
    /\ statements' = <<>>
    /\ scores' = <<>>
    /\ score' = Zero
    /\ speaker_scores' = (speakers[idx] :> Zero) @@ speaker_scores
    /\ pc' = "for"
    /\ page' = page

\* lines 51-54 and 75-76: the lookup returns stmts, the speaker is scored
Returned(stmts) ==
    /\ statements' = stmts
    /\ scores' = score_list(stmts)
    /\ score' = calculate_speaker_score(stmts)
    /\ speaker_scores' = (speakers[idx] :> calculate_speaker_score(stmts)) @@ speaker_scores
    /\ pc' = "for"
    /\ page' = page

\* lines 40-41 raise a requests.RequestException, which line 51 catches
Caught(resp) == resp.status # "ok"

\* a loop without the break of lines 44-45
Breaks_never(resp) == FALSE

\* line 44: not results
Breaks(resp) == Len(resp.entries) = 0

\* a parse that skips what it does not find instead of raising
Raises_never(resp) == FALSE

\* lines 47-48 raise on some entry, which nothing catches
Raises(resp) == FirstBad(resp.entries, 1) <= Len(resp.entries)

\* lines 38-50: one turn of the while loop on the answer resp
LookupPageOn(resp) ==
    /\ log' = Append(log, [page |-> page, resp |-> resp])
    /\ IF Caught(resp) THEN Returned(statements)
       ELSE IF Breaks(resp) THEN Returned(statements)
       ELSE IF Raises(resp)
       THEN /\ statements' = statements \o appended(resp.entries)
            /\ pc' = "crashed"
            /\ UNCHANGED <<page, scores, score, speaker_scores>>
       ELSE /\ statements' = statements \o appended(resp.entries)
            /\ page' = page + 1
            /\ pc' = "request"
            /\ UNCHANGED <<scores, score, speaker_scores>>

LookupPage ==
    /\ pc = "request"
    /\ page <= MaxPage
    /\ \E resp \in SiteResponses : LookupPageOn(resp)
    /\ UNCHANGED <<article, dirExists, file, article_text, speakers, idx, lookups>>

\* lines 86-87: os.makedirs(args.output, exist_ok=True)
MakeDirs ==
    /\ pc = "makedirs"
    /\ dirExists' = TRUE
    /\ pc' = "write"
    /\ UNCHANGED <<article, file, article_text, speakers, idx, speaker_scores, page,
                   statements, log, lookups, scores, score>>

\* lines 89-92: the file is opened for writing, the mapping dumped
WriteFile ==
    /\ pc = "write"
    /\ file' = Some(speaker_scores)
    /\ pc' = "done"
    /\ UNCHANGED <<article, dirExists, article_text, speakers, idx, speaker_scores, page,
                   statements, log, lookups, scores, score>>

Next ==
    \/ FetchArticle
    \/ Identify
    \/ NextSpeaker
    \/ ReturnScores
    \/ LookupPage
    \/ MakeDirs
    \/ WriteFile

Spec == Init /\ [][Next]_vars


\* ------------------------------------------------------------------------
\* SpecText: get_article_text on every small article
\* ------------------------------------------------------------------------
TextChars == {"a", QUOTE}
Texts == SeqsUpTo(TextChars, MaxLen)
TextArticles ==
    Articles \cup {[status |-> "ok", paras |-> ps] : ps \in SeqsUpTo(Texts, MaxParas)}

InitText ==
    /\ pc = "fetch"
    /\ article \in TextArticles
    /\ dirExists = FALSE
    /\ file = None
    /\ Fresh

NextText == FetchArticle

SpecText == InitText /\ [][NextText]_vars

\* ------------------------------------------------------------------------
\* SpecScore: calculate_speaker_score on every small list of records
\* ------------------------------------------------------------------------
ScoreLabels ==
    {L_True, L_MostlyTrue, L_HalfTrue, L_MostlyFalse, L_False, L_PantsOnFire,
     <<>>, <<"t", "r", "u", "e">>, <<" ", "T", "r", "u", "e", " ">>, <<"V", "e", "r", "y", " ", "T", "r", "u", "e">>}
ScoreRecords == {[title |-> <<"q">>, rating |-> r] : r \in ScoreLabels}

InitScore ==
    /\ pc = "score"
    /\ article = [status |-> "ok", paras |-> <<>>]
    /\ dirExists = FALSE
    /\ file = None
    /\ article_text = None
    /\ speakers = <<>>
    /\ idx = 0
    /\ speaker_scores = <<>>
    /\ page = 1
    /\ statements \in SeqsUpTo(ScoreRecords, MaxRecords)
    /\ log = <<>>
    /\ lookups = <<>>
    /\ scores = <<>>
    /\ score = Zero

\* line 75 alone: score = calculate_speaker_score(statements)
ScoreCall ==
    /\ pc = "score"
    /\ scores' = score_list(statements)
    /\ score' = calculate_speaker_score(statements)
    /\ pc' = "scored"
    /\ UNCHANGED <<article, dirExists, file, article_text, speakers, idx, speaker_scores,
                   page, statements, log, lookups>>

NextScore == ScoreCall

SpecScore == InitScore /\ [][NextScore]_vars


\* ------------------------------------------------------------------------
\* Properties
\* ------------------------------------------------------------------------
Last(sq) == sq[Len(sq)]

\* the lookup of speakers[idx] has returned to line 75
AfterLookup == pc \in {"for", "makedirs", "write", "done"}

\* a result entry as the record the lookup keeps of it
EntryRecord(e) == [title |-> strip(e.quote[1]), rating |-> strip(e.alt[1])]

\* the entries of the first n logged pages, in page order, nothing dropped
RECURSIVE PagesConcat(_, _)
PagesConcat(l, n) ==
    IF n = 0 THEN <<>>
    ELSE PagesConcat(l, n - 1)
         \o [i \in 1..Len(l[n].resp.entries) |-> EntryRecord(l[n].resp.entries[i])]

\* the logged requests are for pages 1, 2, ..., in that order
PagesInOrder(l) == \A i \in 1..Len(l) : l[i].page = i

FullPage(resp) ==
    /\ resp.status = "ok"
    /\ Len(resp.entries) > 0
    /\ \A i \in 1..Len(resp.entries) : WellFormed(resp.entries[i])
EmptyPage(resp) == resp.status = "ok" /\ Len(resp.entries) = 0
ErrorPage(resp) == resp.status \in ErrorStatus
MalformedPage(resp) ==
    /\ resp.status = "ok"
    /\ \E i \in 1..Len(resp.entries) : ~WellFormed(resp.entries[i])

\* C1: when pages 1..N-1 answer with entries and page N answers with none, the
\* lookup has made exactly the requests for pages 1, ..., N in order, has
\* returned, and what it returned is the concatenation of the entries of pages
\* 1..N-1, duplicates kept; while it runs its requests are in page order too.
ThmC1 ==
    /\ pc = "request" => PagesInOrder(log) /\ page = Len(log) + 1
    /\ (/\ Len(log) > 0
        /\ EmptyPage(Last(log).resp)
        /\ \A i \in 1..(Len(log) - 1) : FullPage(log[i].resp))
       => /\ AfterLookup
          /\ PagesInOrder(log)
          /\ statements = PagesConcat(log, Len(log) - 1)

\* three requests, a two-entry page among them, one record collected twice
WitC1 ==
    /\ pc = "for"
    /\ Len(log) = 3
    /\ EmptyPage(log[3].resp)
    /\ Len(log[1].resp.entries) = 2
    /\ Len(statements) = 3
    /\ statements[1] = statements[3]
    /\ statements[1] # statements[2]

\* C2: when the request for page k fails after pages 1..k-1 gave entries, the
\* lookup has stopped after k requests without raising, has returned the
\* entries of pages 1..k-1, and the speaker's score is that of this list.
ThmC2 ==
    (Len(log) > 0 /\ ErrorPage(Last(log).resp))
    => /\ AfterLookup
       /\ PagesInOrder(log)
       /\ \A i \in 1..(Len(log) - 1) : FullPage(log[i].resp)
       /\ statements = PagesConcat(log, Len(log) - 1)
       /\ speakers[idx] \in DOMAIN speaker_scores
       /\ speaker_scores[speakers[idx]] = calculate_speaker_score(PagesConcat(log, Len(log) - 1))

\* page 3 failed with a bad status after two pages with entries
WitC2 ==
    /\ pc = "for"
    /\ Len(log) = 3
    /\ log[3].resp.status = "bad_status"
    /\ Len(statements) >= 2
    /\ speaker_scores[speakers[idx]] = Rat(1, 1)

\* C3: when the article fetch fails, the mapping is empty, no lookup is ever
\* started and no fact-check page requested, the run never crashes, and at its
\* end the output directory exists and speaker_scores.json holds {}.
ThmC3 ==
    article.status # "ok"
    => /\ pc \in {"fetch", "identify", "makedirs", "write", "done"}
       /\ lookups = <<>>
       /\ log = <<>>
       /\ speaker_scores = <<>>
       /\ pc = "done" => dirExists /\ file = Some(<<>>)

WitC3 ==
    /\ pc = "done"
    /\ article.status = "bad_status"
    /\ article_text = None
    /\ dirExists
    /\ file = Some(<<>>)

\* the text blob line 71 hands to identify_speakers
Blob == join(<<" ">>, article_text[1])

\* t holds a run of two capitalized words separated by one whitespace character
HasNameRun(t) == \E s \in 1..Len(t) : NameMatchAt(t, s) # 0

NoDuplicates(sq) == \A i, j \in 1..Len(sq) : sq[i] = sq[j] => i = j

\* C4: identify_speakers on the blob "John Smith said this" yields a collection
\* with "John Smith", on a blob without a run of two capitalized words it
\* yields nothing, and it never yields a string twice.
CexC4 ==
    (pc \notin {"fetch", "identify", "score", "scored"} /\ article_text # None)
    => /\ Blob = <<"J", "o", "h", "n", " ", "S", "m", "i", "t", "h", " ", "s", "a", "i", "d", " ", "t", "h", "i", "s">> => <<"J", "o", "h", "n", " ", "S", "m", "i", "t", "h">> \in Range(speakers)
       /\ ~HasNameRun(Blob) => speakers = <<>>
       /\ NoDuplicates(speakers)

\* the rating table of the claim, in tenths
TableTenths(rating) ==
    IF rating = <<"T", "r", "u", "e">> THEN 10
    ELSE IF rating = <<"M", "o", "s", "t", "l", "y", " ", "T", "r", "u", "e">> THEN 8
    ELSE IF rating = <<"H", "a", "l", "f", " ", "T", "r", "u", "e">> THEN 5
    ELSE IF rating = <<"M", "o", "s", "t", "l", "y", " ", "F", "a", "l", "s", "e">> THEN 2
    ELSE IF rating = <<"F", "a", "l", "s", "e">> THEN 0
    ELSE IF rating = <<"P", "a", "n", "t", "s", " ", "o", "n", " ", "F", "i", "r", "e", "!">> THEN -10
    ELSE 0

\* the number x is t tenths
IsTenths(x, t) == x.den > 0 /\ x.num * 10 = t * x.den

\* C5: the value calculate_speaker_score uses for a record is that of the
\* table for the six labels and 0 for every other string.
ThmC5 ==
    pc = "scored"
    => /\ Len(scores) = Len(statements)
       /\ \A i \in 1..Len(statements) :
            IsTenths(scores[i], TableTenths(statements[i].rating))

\* a label with surrounding whitespace, one in lower case and a table label
WitC5 ==
    /\ pc = "scored"
    /\ Len(statements) = 3
    /\ statements[1].rating = <<" ", "T", "r", "u", "e", " ">>
    /\ statements[2].rating = <<"t", "r", "u", "e">>
    /\ statements[3].rating = L_PantsOnFire
    /\ scores = <<Zero, Zero, Rat(-1, 1)>>

RECURSIVE TenthsSum(_)
TenthsSum(stmts) ==
    IF Len(stmts) = 0 THEN 0
    ELSE TableTenths(stmts[1].rating) + TenthsSum(Tail(stmts))

\* C6: the score is the arithmetic mean of the table values of all records
\* (an unrecognized rating counts as 0 and counts in the number of records,
\* a repeated record counts each time), 0 for no record, 0.5 for [True, False].
ThmC6 ==
    pc = "scored"
    => /\ Len(statements) = 0 => score = Zero
       /\ Len(statements) > 0 =>
            /\ score.den > 0
            /\ score.num * 10 * Len(statements) = TenthsSum(statements) * score.den
       /\ (Len(statements) = 2 /\ statements[1].rating = L_True
             /\ statements[2].rating = L_False) => score = Rat(1, 2)

\* True twice and an unrecognized label: 2/3
WitC6 ==
    /\ pc = "scored"
    /\ Len(statements) = 3
    /\ statements[1] = statements[2]
    /\ statements[1].rating = L_True
    /\ statements[3].rating = <<"V", "e", "r", "y", " ", "T", "r", "u", "e">>
    /\ score = Rat(2, 3)

\* the indices of the double quotes of t, in increasing order
RECURSIVE QuotePositions(_, _)
QuotePositions(t, i) ==
    IF i > Len(t) THEN <<>>
    ELSE IF t[i] = QUOTE THEN <<i>> \o QuotePositions(t, i + 1)
    ELSE QuotePositions(t, i + 1)

\* the substrings between the 1st and 2nd, 3rd and 4th, ... double quote of t
BetweenQuotePairs(t) ==
    LET qp == QuotePositions(t, 1)
    IN  [k \in 1..(Len(qp) \div 2) |-> SubSeq(t, qp[2 * k - 1] + 1, qp[2 * k] - 1)]

ArticleText == join(<<" ">>, article.paras)

\* C7: for a fetched article get_article_text returns, in order, the substrings
\* between the 1st and 2nd, 3rd and 4th, ... double quote of the space-joined
\* paragraph text, none of which holds a double quote; He said "hello" and
\* "world" gives [hello, world]; fewer than two quotes give the empty list.
ThmC7 ==
    (pc # "fetch" /\ article.status = "ok")
    => /\ article_text = Some(BetweenQuotePairs(ArticleText))
       /\ \A i \in 1..Len(article_text[1]) : QUOTE \notin Range(article_text[1][i])
       /\ ArticleText = T_Hello => article_text = Some(<<<<"h", "e", "l", "l", "o">>, <<"w", "o", "r", "l", "d">>>>)
       /\ Len(QuotePositions(ArticleText, 1)) < 2 => article_text = Some(<<>>)

\* an empty pair, then a pair closed in the next paragraph, then an unpaired quote
WitC7 ==
    /\ pc = "identify"
    /\ article.paras = <<<<QUOTE, QUOTE, QUOTE, "a">>, <<QUOTE, QUOTE>>>>
    /\ article_text = Some(<<<<>>, <<"a", " ">>>>)

\* this step is a page request of the running lookup
PageStep == pc = "request" /\ Len(log') = Len(log) + 1

\* C8: a result entry lacking an expected element ends the run at once with an
\* unhandled failure; a crashed run does nothing more; and the file changes
\* only in the one write after the last speaker's lookup, so the crash leaves
\* speaker_scores.json as it was, whatever was scored before.
ThmC8 ==
    [][/\ (PageStep /\ MalformedPage(Last(log').resp))
            => (pc' = "crashed" /\ file' = file /\ speaker_scores' = speaker_scores)
       /\ pc # "crashed"
       /\ file' # file => (pc = "write" /\ idx = Len(speakers) /\ pc' = "done")]_vars

\* the second speaker's lookup crashed after the first speaker was scored
WitC8 ==
    /\ pc = "crashed"
    /\ idx = 2
    /\ DOMAIN speaker_scores = {speakers[1]}
    /\ speaker_scores[speakers[1]] = Rat(1, 1)
    /\ file = Some(OldFile)

\* C9: the returned mapping has one key for each distinct run of two
\* capitalized words in the quoted statements, every speaker was looked up
\* exactly once, and the last speaker's value is the score of its lookup.
CexC9 ==
    (pc \in {"makedirs", "write", "done"} /\ article_text # None)
    => /\ DOMAIN speaker_scores = Range(NameFindall(Blob, 1))
       /\ Range(lookups) = DOMAIN speaker_scores
       /\ NoDuplicates(lookups)
       /\ idx > 0 => speaker_scores[speakers[idx]] = calculate_speaker_score(statements)

\* C10: a page request ends the lookup exactly when it answers with no entry,
\* with an error, or with a malformed entry; a page of well-formed entries
\* keeps the lookup running on the next page, whatever the page number, and
\* the file is never written while a lookup runs.
ThmC10 ==
    [][/\ PageStep =>
            /\ (pc' # "request") <=>
                 (\/ EmptyPage(Last(log').resp)
                  \/ ErrorPage(Last(log').resp)
                  \/ MalformedPage(Last(log').resp))
            /\ FullPage(Last(log').resp) => (pc' = "request" /\ page' = page + 1)
       /\ pc = "request" => file' = file]_vars

\* every page up to the bound was full: the lookup is still running
WitC10 ==
    /\ pc = "request"
    /\ Len(log) >= 3
    /\ page = Len(log) + 1
    /\ \A i \in 1..Len(log) : FullPage(log[i].resp)
    /\ file # Some(speaker_scores)

====
